---- MODULE Spec2Model ----
(***************************************************************************)
(* Model of ray::rpc::DefaultActorInfoHandler                              *)
(* (src/ray/gcs/gcs_server/actor_info_handler_impl.cc).                    *)
(*                                                                         *)
(* Every RPC handler is one action; the completion callback (on_done) a    *)
(* handler hands to the registry client or to the actor manager is a       *)
(* second action that fires later, unless the delegate failed              *)
(* synchronously, in which case the handler runs on_done inline.           *)
(***************************************************************************)
EXTENDS Integers, Sequences, FiniteSets, TLC

\* Number of RPC requests the transport delivers in one behaviour.
MaxReqs == 2

ReqIds == 1..MaxReqs

\* boost::none, an unset protobuf message field: the empty option.
None == {}

\* boost::optional<T> holding a value.
Some(x) == {x}

\* *result
Deref(opt) == CHOOSE x \in opt : TRUE

----------------------------------------------------------------------------
\* Status

OK == [code |-> "OK", msg |-> <<>>]

IOError == [code |-> "IOError", msg |-> <<"io error">>]

Invalid == [code |-> "Invalid", msg |-> <<"invalid">>]

NotFound(msg) == [code |-> "NotFound", msg |-> msg]

ok(status) == status.code = "OK"

\* The failed Status values a delegate (registry client, actor manager,
\* publisher) reports in this model.
Failures == {IOError, Invalid}

Statuses == {OK} \cup Failures

----------------------------------------------------------------------------
\* Identifiers and payloads

\* ActorID / ActorCheckpointID in binary form: a sequence of bytes.
ActorIDs == {<<26>>, <<178>>}

NilActorID == <<255>>

CheckpointIDs == {<<7>>}

IsNil(id) == \A i \in 1..Len(id) : id[i] = 255

FromBinary(binary) == binary

HexDigits == <<"0", "1", "2", "3", "4", "5", "6", "7",
               "8", "9", "a", "b", "c", "d", "e", "f">>

\* BaseID::Hex: two lower-case hex digits per byte, high nibble first.
Hex(id) ==
  [i \in 1..(2 * Len(id)) |->
     IF i % 2 = 1 THEN HexDigits[(id[(i + 1) \div 2] \div 16) + 1]
                  ELSE HexDigits[(id[i \div 2] % 16) + 1]]

ActorStates == {"ALIVE"}

\* rpc::ActorTableData: the embedded actor_id and the rest of the record.
ActorTableData == [actor_id : ActorIDs, state : ActorStates]

\* rpc::ActorCheckpointData
ActorCheckpointData == [actor_id : ActorIDs, checkpoint_id : CheckpointIDs]

StateEnum(state) == IF state = "ALIVE" THEN 1 ELSE 2

\* protobuf SerializeAsString: field 1 length-delimited, field 2 varint.
SerializeAsString(data) ==
  <<10, Len(data.actor_id)>> \o data.actor_id \o <<16, StateEnum(data.state)>>

\* Protobuf CopyFrom: the destination becomes a deep copy of the source.
CopyFrom(src) == src

ACTOR_CHANNEL == "ACTOR"

ActorNames == {"alice", "bob"}

\* GcsActorManager::GetActorIDByName: the in-memory name index; a name that
\* was never registered resolves to the nil ActorID.
GetActorIDByName(name) == IF name = "alice" THEN <<26>> ELSE NilActorID

----------------------------------------------------------------------------
\* State

VARIABLES
  pc,               \* per request: "idle", "pending", "done", "aborted"
  request,          \* per request: the request message the handler received
  reply,            \* per request: the reply message the handler fills in
  sent,             \* per request: the Status of every send_reply_callback call
  calls,            \* per request: the delegate operations the handler invoked
  outcome,          \* per request: what the delegate reported to on_done
  published,        \* gcs_pub_sub_: every Publish call, in order, with its Status
  crashed,          \* a RAY_CHECK failed and the process aborted
  actor_table,      \* registry: ActorID -> optional ActorTableData
  checkpoint_table  \* registry: (ActorID, CheckpointID) -> optional data

vars == <<pc, request, reply, sent, calls, outcome, published, crashed,
          actor_table, checkpoint_table>>

NoRequest == [op |-> "None"]

\* A freshly constructed reply message: every field unset.
EmptyReply == [actor_table_data |-> None, actor_table_data_list |-> <<>>,
               checkpoint_data |-> None, checkpoint_id_data |-> None]

Init ==
  /\ pc = [r \in ReqIds |-> "idle"]
  /\ request = [r \in ReqIds |-> NoRequest]
  /\ reply = [r \in ReqIds |-> EmptyReply]
  /\ sent = [r \in ReqIds |-> <<>>]
  /\ calls = [r \in ReqIds |-> <<>>]
  /\ outcome = [r \in ReqIds |-> <<>>]
  /\ published = <<>>
  /\ crashed = FALSE
  /\ actor_table = [id \in ActorIDs |-> None]
  /\ checkpoint_table = [k \in ActorIDs \X CheckpointIDs |-> None]

----------------------------------------------------------------------------
\* The effect of running a piece of handler code on one request: the reply
\* message as left by the code, the Status of each send_reply_callback call,
\* the notifications handed to the publisher, and whether a RAY_CHECK
\* aborted the process.

Effect(rep) == [reply |-> rep, sent |-> <<>>, published |-> <<>>,
                crashed |-> FALSE]

\* GCS_RPC_SEND_REPLY(send_reply_callback, reply, status): one call of
\* send_reply_callback carrying status; the entry also records how many
\* notifications the code had handed to the publisher before the call.
GCS_RPC_SEND_REPLY(eff, status) ==
  IF eff.crashed THEN eff
  ELSE [eff EXCEPT !.sent =
          Append(@, [status |-> status, published |-> Len(eff.published)])]

\* RAY_CHECK(condition) / RAY_DCHECK(condition): abort the process when the
\* condition is false; nothing after it runs.
RAY_CHECK(eff, condition) ==
  IF condition THEN eff ELSE [eff EXCEPT !.crashed = TRUE]

RAY_DCHECK(eff, condition) == RAY_CHECK(eff, condition)

\* RAY_CHECK_OK(expr): abort the process unless the Status is Ok.
RAY_CHECK_OK(eff, status) == RAY_CHECK(eff, ok(status))

\* gcs_pub_sub_->Publish(channel, key, payload, nullptr), where pub_status is
\* the Status the publisher returns for the call.
Publish(eff, channel, key, payload, pub_status) ==
  IF eff.crashed THEN eff
  ELSE [eff EXCEPT !.published =
          Append(@, [channel |-> channel, key |-> key, payload |-> payload,
                     status |-> pub_status])]

\* Variant: the handlers fill in one reply message shared by all requests.
Complete_SharedReply(r, eff) ==
  /\ reply' = [q \in ReqIds |-> eff.reply]
  /\ sent' = [sent EXCEPT ![r] = @ \o eff.sent]
  /\ published' = published \o
       [i \in 1..Len(eff.published) |->
          [by |-> r, channel |-> eff.published[i].channel,
           key |-> eff.published[i].key, payload |-> eff.published[i].payload,
           status |-> eff.published[i].status]]
  /\ crashed' = eff.crashed
  /\ pc' = [pc EXCEPT ![r] = IF eff.crashed THEN "aborted" ELSE "done"]

\* The handler or its callback has run for request r with effect eff.
Complete(r, eff) ==
  /\ reply' = [reply EXCEPT ![r] = eff.reply]
  /\ sent' = [sent EXCEPT ![r] = @ \o eff.sent]
  /\ published' = published \o
       [i \in 1..Len(eff.published) |->
          [by |-> r, channel |-> eff.published[i].channel,
           key |-> eff.published[i].key, payload |-> eff.published[i].payload,
           status |-> eff.published[i].status]]
  /\ crashed' = eff.crashed
  /\ pc' = [pc EXCEPT ![r] = IF eff.crashed THEN "aborted" ELSE "done"]

\* The handler received request req and invoked the delegate operations op.
\* Requests are numbered in the order the transport delivers them.
Receive(r, req, op) ==
  /\ \A q \in 1..(r - 1) : pc[q] # "idle"
  /\ request'= [request EXCEPT ![r] = req]
  /\ calls' = [calls EXCEPT ![r] = @ \o op]

\* The delegate accepted the call (returned Ok); on_done is outstanding.
Defer(r) ==
  /\ pc' = [pc EXCEPT ![r] = "pending"]
  /\ UNCHANGED <<reply, sent, published, crashed, outcome>>

Report(r, sync, status, result) ==
  outcome' = [outcome EXCEPT ![r] =
                Append(@, [sync |-> sync, status |-> status, result |-> result])]

----------------------------------------------------------------------------
\* HandleCreateActor

TaskTypes == {"ACTOR_CREATION_TASK", "NORMAL_TASK"}

CreateActorRequests ==
  [op : {"CreateActor"}, type : TaskTypes, actor_id : ActorIDs]

\* The on-registered callback passed to gcs_actor_manager_.RegisterActor.
CreateActor_on_registered(rep) == GCS_RPC_SEND_REPLY(Effect(rep), OK)

\* Variant: the reply is sent as soon as the manager accepts the registration.
HandleCreateActor_ReplyOnAccept(r, req, status) ==
  /\ ~crashed /\ pc[r] = "idle"
  /\ LET checked == RAY_CHECK(Effect(reply[r]),
                               req.type = "ACTOR_CREATION_TASK")
     IN IF checked.crashed
        THEN /\ Receive(r, req, <<>>)
             /\ Complete(r, checked)
             /\ UNCHANGED outcome
        ELSE /\ Receive(r, req, <<"RegisterActor">>)
             /\ Complete(r, GCS_RPC_SEND_REPLY(checked, status))
             /\ IF ~ok(status) THEN Report(r, TRUE, status, None)
                ELSE UNCHANGED outcome
  /\ UNCHANGED <<actor_table, checkpoint_table>>

HandleCreateActor(r, req, status) ==
  /\ ~crashed /\ pc[r] = "idle"
  /\ LET checked == RAY_CHECK(Effect(reply[r]),
                               req.type = "ACTOR_CREATION_TASK")
     IN IF checked.crashed
        THEN /\ Receive(r, req, <<>>)
             /\ Complete(r, checked)
             /\ UNCHANGED outcome
        ELSE /\ Receive(r, req, <<"RegisterActor">>)
             /\ IF ~ok(status)
                THEN /\ Report(r, TRUE, status, None)
                     /\ Complete(r, GCS_RPC_SEND_REPLY(checked, status))
                ELSE Defer(r)
  /\ UNCHANGED <<actor_table, checkpoint_table>>

\* The actor manager invokes the on-registered callback.
CreateActorRegistered(r) ==
  /\ ~crashed /\ pc[r] = "pending" /\ request[r].op = "CreateActor"
  /\ Report(r, FALSE, OK, None)
  /\ Complete(r, CreateActor_on_registered(reply[r]))
  /\ UNCHANGED <<request, calls, actor_table, checkpoint_table>>

----------------------------------------------------------------------------
\* HandleGetActorInfo

GetActorInfoRequests == [op : {"GetActorInfo"}, actor_id : ActorIDs]

\* Variant: absence of the record is answered as an error.
GetActorInfo_on_done_AbsentIsError(rep, status, result) ==
  IF result # None
  THEN GCS_RPC_SEND_REPLY(
         Effect([rep EXCEPT !.actor_table_data = Some(CopyFrom(Deref(result)))]), OK)
  ELSE GCS_RPC_SEND_REPLY(Effect(rep), NotFound(<<"actor not found">>))

\* Variant: the record is never copied into the reply.
GetActorInfo_on_done_NoCopy(rep, status, result) ==
  GCS_RPC_SEND_REPLY(Effect(rep), OK)

GetActorInfo_on_done(rep, status, result) ==
  LET filled == IF result # None
                THEN [rep EXCEPT !.actor_table_data = Some(CopyFrom(Deref(result)))]
                ELSE rep
  IN GCS_RPC_SEND_REPLY(Effect(filled), OK)

\* Variant: a synchronous failure is answered directly with the failed Status
\* instead of going through on_done.
HandleGetActorInfo_DirectReply(r, req, status) ==
  /\ ~crashed /\ pc[r] = "idle"
  /\ Receive(r, req, <<"AsyncGet">>)
  /\ IF ~ok(status)
     THEN /\ Report(r, TRUE, status, None)
          /\ Complete(r, GCS_RPC_SEND_REPLY(Effect(reply[r]), status))
     ELSE Defer(r)
  /\ UNCHANGED <<actor_table, checkpoint_table>>

HandleGetActorInfo(r, req, status) ==
  /\ ~crashed /\ pc[r] = "idle"
  /\ Receive(r, req, <<"AsyncGet">>)
  /\ IF ~ok(status)
     THEN /\ Report(r, TRUE, status, None)
          /\ Complete(r, GetActorInfo_on_done(reply[r], status, None))
     ELSE Defer(r)
  /\ UNCHANGED <<actor_table, checkpoint_table>>

\* The registry client invokes on_done with the lookup's outcome.
GetActorInfoDone(r, status) ==
  /\ ~crashed /\ pc[r] = "pending" /\ request[r].op = "GetActorInfo"
  /\ LET actor_id == FromBinary(request[r].actor_id)
         result == IF ok(status) THEN actor_table[actor_id] ELSE None
     IN /\ Report(r, FALSE, status, result)
        /\ Complete(r, GetActorInfo_on_done(reply[r], status, result))
  /\ UNCHANGED <<request, calls, actor_table, checkpoint_table>>

----------------------------------------------------------------------------
\* HandleGetAllActorInfo

GetAllActorInfoRequests == [op : {"GetAllActorInfo"}]

RECURSIVE AddAll_Reversed(_, _)
\* Variant: each record is inserted at the front of the reply's list.
AddAll_Reversed(list, result) ==
  IF result = <<>> THEN list
  ELSE AddAll_Reversed(<<CopyFrom(Head(result))>> \o list, Tail(result))

RECURSIVE AddAll(_, _)
\* for (auto &it : result) reply->add_actor_table_data()->CopyFrom(it);
AddAll(list, result) ==
  IF result = <<>> THEN list
  ELSE AddAll(Append(list, CopyFrom(Head(result))), Tail(result))

GetAllActorInfo_on_done(rep, status, result) ==
  LET filled == [rep EXCEPT !.actor_table_data_list = AddAll(@, result)]
  IN GCS_RPC_SEND_REPLY(Effect(filled), OK)

\* The records of the actor table in one of the orders the store may
\* return them.
StoredRecords == {Deref(actor_table[id]) : id \in {i \in ActorIDs : actor_table[i] # None}}

Orders(S) ==
  {seq \in [1..Cardinality(S) -> S] :
     \A i, j \in 1..Cardinality(S) : i # j => seq[i] # seq[j]}

HandleGetAllActorInfo(r, req, status) ==
  /\ ~crashed /\ pc[r] = "idle"
  /\ Receive(r, req, <<"AsyncGetAll">>)
  /\ IF ~ok(status)
     THEN /\ Report(r, TRUE, status, <<>>)
          /\ Complete(r, GetAllActorInfo_on_done(reply[r], status, <<>>))
     ELSE Defer(r)
  /\ UNCHANGED <<actor_table, checkpoint_table>>

GetAllActorInfoDone(r, status, result) ==
  /\ ~crashed /\ pc[r] = "pending" /\ request[r].op = "GetAllActorInfo"
  /\ result \in (IF ok(status) THEN Orders(StoredRecords) ELSE {<<>>})
  /\ Report(r, FALSE, status, result)
  /\ Complete(r, GetAllActorInfo_on_done(reply[r], status, result))
  /\ UNCHANGED <<request, calls, actor_table, checkpoint_table>>

----------------------------------------------------------------------------
\* HandleGetNamedActorInfo

GetNamedActorInfoRequests == [op : {"GetNamedActorInfo"}, name : ActorNames]

\* Variant: the failure branch sends the reply itself and falls through to
\* the common send.
GetNamedActorInfo_on_done_SendsTwice(rep, status, result) ==
  LET filled == IF ok(status) /\ result # None
                THEN [rep EXCEPT !.actor_table_data = Some(CopyFrom(Deref(result)))]
                ELSE rep
      first == IF ok(status) THEN Effect(filled)
               ELSE GCS_RPC_SEND_REPLY(Effect(filled), status)
  IN GCS_RPC_SEND_REPLY(first, status)

\* Variant: the reply is sent with Status Ok whatever the lookup's Status, as
\* HandleGetActorInfo does.
GetNamedActorInfo_on_done_ReplyOk(rep, status, result) ==
  LET filled == IF result # None
                THEN [rep EXCEPT !.actor_table_data = Some(CopyFrom(Deref(result)))]
                ELSE rep
  IN GCS_RPC_SEND_REPLY(Effect(filled), OK)

GetNamedActorInfo_on_done(rep, status, result) ==
  LET filled == IF ok(status) /\ result # None
                THEN [rep EXCEPT !.actor_table_data = Some(CopyFrom(Deref(result)))]
                ELSE rep
  IN GCS_RPC_SEND_REPLY(Effect(filled), status)

\* Variant: the message does not mention the name.
NotFoundMessage_NoName(name) == <<"Actor was not found.">>

\* stream << "Actor with name '" << name << "' was not found.";
NotFoundMessage(name) == <<"Actor with name '", name, "' was not found.">>

HandleGetNamedActorInfo(r, req, status) ==
  /\ ~crashed /\ pc[r] = "idle"
  /\ LET actor_id == GetActorIDByName(req.name)
     IN IF IsNil(actor_id)
        THEN /\ Receive(r, req, <<"GetActorIDByName">>)
             /\ UNCHANGED outcome
             /\ Complete(r, GetNamedActorInfo_on_done(
                               reply[r], NotFound(NotFoundMessage(req.name)), None))
        ELSE /\ Receive(r, req, <<"GetActorIDByName", "AsyncGet">>)
             /\ IF ~ok(status)
                THEN /\ Report(r, TRUE, status, None)
                     /\ Complete(r, GetNamedActorInfo_on_done(reply[r], status, None))
                ELSE Defer(r)
  /\ UNCHANGED <<actor_table, checkpoint_table>>

GetNamedActorInfoDone(r, status) ==
  /\ ~crashed /\ pc[r] = "pending" /\ request[r].op = "GetNamedActorInfo"
  /\ LET actor_id == GetActorIDByName(request[r].name)
         result == IF ok(status) THEN actor_table[actor_id] ELSE None
     IN /\ Report(r, FALSE, status, result)
        /\ Complete(r, GetNamedActorInfo_on_done(reply[r], status, result))
  /\ UNCHANGED <<request, calls, actor_table, checkpoint_table>>

----------------------------------------------------------------------------
\* The registry's actor table after a register / update operation succeeded:
\* the record is stored under its embedded ActorID, respectively under the
\* ActorID given to update.

StoreRegistered(actor_table_data) ==
  [actor_table EXCEPT ![actor_table_data.actor_id] = Some(actor_table_data)]

StoreUpdated(actor_id, actor_table_data) ==
  [actor_table EXCEPT ![actor_id] = Some(actor_table_data)]

----------------------------------------------------------------------------
\* HandleRegisterActorInfo

RegisterActorInfoRequests ==
  [op : {"RegisterActorInfo"}, actor_table_data : ActorTableData]

\* Variant: the notification is published whatever the registry's Status.
RegisterActorInfo_on_done_AlwaysPublishes(actor_id, actor_table_data, rep, status, pub_status) ==
  GCS_RPC_SEND_REPLY(
    RAY_CHECK_OK(Publish(Effect(rep), ACTOR_CHANNEL, Hex(actor_id),
                         SerializeAsString(actor_table_data), pub_status),
                 pub_status),
    status)

\* Variant: the reply is sent first and the notification published after.
RegisterActorInfo_on_done_ReplyFirst(actor_id, actor_table_data, rep, status, pub_status) ==
  LET replied == GCS_RPC_SEND_REPLY(Effect(rep), status)
  IN IF ~ok(status) THEN replied
     ELSE RAY_CHECK_OK(Publish(replied, ACTOR_CHANNEL, Hex(actor_id),
                               SerializeAsString(actor_table_data), pub_status),
                       pub_status)

\* pub_status is the Status gcs_pub_sub_->Publish returns if it is called.
RegisterActorInfo_on_done(actor_id, actor_table_data, rep, status, pub_status) ==
  LET done == IF ~ok(status)
              THEN Effect(rep)
              ELSE RAY_CHECK_OK(
                     Publish(Effect(rep), ACTOR_CHANNEL, Hex(actor_id),
                             SerializeAsString(actor_table_data), pub_status),
                     pub_status)
  IN GCS_RPC_SEND_REPLY(done, status)

HandleRegisterActorInfo(r, req, status, pub_status) ==
  /\ ~crashed /\ pc[r] = "idle"
  /\ Receive(r, req, <<"AsyncRegister">>)
  /\ LET actor_id == FromBinary(req.actor_table_data.actor_id)
         actor_table_data == CopyFrom(req.actor_table_data)
     IN IF ~ok(status)
        THEN /\ Report(r, TRUE, status, None)
             /\ Complete(r, RegisterActorInfo_on_done(
                               actor_id, actor_table_data, reply[r], status, pub_status))
        ELSE Defer(r)
  /\ UNCHANGED <<actor_table, checkpoint_table>>

\* The registry finishes the register operation (storing the record when it
\* succeeds) and invokes on_done.
RegisterActorInfoDone(r, status, pub_status) ==
  /\ ~crashed /\ pc[r] = "pending" /\ request[r].op = "RegisterActorInfo"
  /\ LET actor_id == FromBinary(request[r].actor_table_data.actor_id)
         actor_table_data == CopyFrom(request[r].actor_table_data)
     IN /\ actor_table' = IF ok(status) THEN StoreRegistered(actor_table_data)
                          ELSE actor_table
        /\ Report(r, FALSE, status, None)
        /\ Complete(r, RegisterActorInfo_on_done(
                          actor_id, actor_table_data, reply[r], status, pub_status))
  /\ UNCHANGED <<request, calls, checkpoint_table>>

----------------------------------------------------------------------------
\* HandleUpdateActorInfo

UpdateActorInfoRequests ==
  [op : {"UpdateActorInfo"}, actor_id : ActorIDs, actor_table_data : ActorTableData]

\* Variant: the routing key is taken from the record instead of the request's
\* actor_id.
UpdateActorInfo_on_done_KeyFromRecord(actor_id, actor_table_data, rep, status, pub_status) ==
  LET done == IF ~ok(status)
              THEN Effect(rep)
              ELSE RAY_CHECK_OK(
                     Publish(Effect(rep), ACTOR_CHANNEL, Hex(actor_table_data.actor_id),
                             SerializeAsString(actor_table_data), pub_status),
                     pub_status)
  IN GCS_RPC_SEND_REPLY(done, status)

\* Variant: a successful update is answered without publishing.
UpdateActorInfo_on_done_NoPublish(actor_id, actor_table_data, rep, status, pub_status) ==
  GCS_RPC_SEND_REPLY(Effect(rep), status)

\* Variant: the reply is sent first and the notification published after.
UpdateActorInfo_on_done_ReplyFirst(actor_id, actor_table_data, rep, status, pub_status) ==
  LET replied == GCS_RPC_SEND_REPLY(Effect(rep), status)
  IN IF ~ok(status) THEN replied
     ELSE RAY_CHECK_OK(Publish(replied, ACTOR_CHANNEL, Hex(actor_id),
                               SerializeAsString(actor_table_data), pub_status),
                       pub_status)

UpdateActorInfo_on_done(actor_id, actor_table_data, rep, status, pub_status) ==
  LET done == IF ~ok(status)
              THEN Effect(rep)
              ELSE RAY_CHECK_OK(
                     Publish(Effect(rep), ACTOR_CHANNEL, Hex(actor_id),
                             SerializeAsString(actor_table_data), pub_status),
                     pub_status)
  IN GCS_RPC_SEND_REPLY(done, status)

HandleUpdateActorInfo(r, req, status, pub_status) ==
  /\ ~crashed /\ pc[r] = "idle"
  /\ Receive(r, req, <<"AsyncUpdate">>)
  /\ LET actor_id == FromBinary(req.actor_id)
         actor_table_data == CopyFrom(req.actor_table_data)
     IN IF ~ok(status)
        THEN /\ Report(r, TRUE, status, None)
             /\ Complete(r, UpdateActorInfo_on_done(
                               actor_id, actor_table_data, reply[r], status, pub_status))
        ELSE Defer(r)
  /\ UNCHANGED <<actor_table, checkpoint_table>>

\* The registry finishes the update operation (storing the record under the
\* given ActorID when it succeeds) and invokes on_done.
UpdateActorInfoDone(r, status, pub_status) ==
  /\ ~crashed /\ pc[r] = "pending" /\ request[r].op = "UpdateActorInfo"
  /\ LET actor_id == FromBinary(request[r].actor_id)
         actor_table_data == CopyFrom(request[r].actor_table_data)
     IN /\ actor_table' = IF ok(status) THEN StoreUpdated(actor_id, actor_table_data)
                          ELSE actor_table
        /\ Report(r, FALSE, status, None)
        /\ Complete(r, UpdateActorInfo_on_done(
                          actor_id, actor_table_data, reply[r], status, pub_status))
  /\ UNCHANGED <<request, calls, checkpoint_table>>

----------------------------------------------------------------------------
\* HandleAddActorCheckpoint

AddActorCheckpointRequests ==
  [op : {"AddActorCheckpoint"}, checkpoint_data : ActorCheckpointData]

\* Variant: a stored checkpoint is broadcast on the actor channel.
AddActorCheckpoint_on_done_Publishes(rep, status) ==
  LET done == IF ~ok(status) THEN Effect(rep)
              ELSE Publish(Effect(rep), ACTOR_CHANNEL, <<>>, <<>>, OK)
  IN GCS_RPC_SEND_REPLY(done, status)

AddActorCheckpoint_on_done(rep, status) ==
  GCS_RPC_SEND_REPLY(Effect(rep), status)

HandleAddActorCheckpoint(r, req, status) ==
  /\ ~crashed /\ pc[r] = "idle"
  /\ Receive(r, req, <<"AsyncAddCheckpoint">>)
  /\ IF ~ok(status)
     THEN /\ Report(r, TRUE, status, None)
          /\ Complete(r, AddActorCheckpoint_on_done(reply[r], status))
     ELSE Defer(r)
  /\ UNCHANGED <<actor_table, checkpoint_table>>

AddActorCheckpointDone(r, status) ==
  /\ ~crashed /\ pc[r] = "pending" /\ request[r].op = "AddActorCheckpoint"
  /\ LET actor_checkpoint_data == CopyFrom(request[r].checkpoint_data)
         key == <<actor_checkpoint_data.actor_id, actor_checkpoint_data.checkpoint_id>>
     IN checkpoint_table' = IF ok(status)
                            THEN [checkpoint_table EXCEPT
                                    ![key] = Some(actor_checkpoint_data)]
                            ELSE checkpoint_table
  /\ Report(r, FALSE, status, None)
  /\ Complete(r, AddActorCheckpoint_on_done(reply[r], status))
  /\ UNCHANGED <<request, calls, actor_table>>

----------------------------------------------------------------------------
\* HandleGetActorCheckpoint

GetActorCheckpointRequests ==
  [op : {"GetActorCheckpoint"}, actor_id : ActorIDs, checkpoint_id : CheckpointIDs]

\* Variant: the result is copied only when present, without the assertion.
GetActorCheckpoint_on_done_Unchecked(rep, status, result) ==
  LET filled == IF ok(status) /\ result # None
                THEN [rep EXCEPT !.checkpoint_data = Some(CopyFrom(Deref(result)))]
                ELSE rep
  IN GCS_RPC_SEND_REPLY(Effect(filled), status)

GetActorCheckpoint_on_done(rep, status, result) ==
  LET done == IF ok(status)
              THEN LET checked == RAY_DCHECK(Effect(rep), result # None)
                   IN IF checked.crashed THEN checked
                      ELSE [checked EXCEPT
                              !.reply.checkpoint_data = Some(CopyFrom(Deref(result)))]
              ELSE Effect(rep)
  IN GCS_RPC_SEND_REPLY(done, status)

HandleGetActorCheckpoint(r, req, status) ==
  /\ ~crashed /\ pc[r] = "idle"
  /\ Receive(r, req, <<"AsyncGetCheckpoint">>)
  /\ IF ~ok(status)
     THEN /\ Report(r, TRUE, status, None)
          /\ Complete(r, GetActorCheckpoint_on_done(reply[r], status, None))
     ELSE Defer(r)
  /\ UNCHANGED <<actor_table, checkpoint_table>>

GetActorCheckpointDone(r, status) ==
  /\ ~crashed /\ pc[r] = "pending" /\ request[r].op = "GetActorCheckpoint"
  /\ LET actor_id == FromBinary(request[r].actor_id)
         checkpoint_id == FromBinary(request[r].checkpoint_id)
         result == IF ok(status) THEN checkpoint_table[<<actor_id, checkpoint_id>>]
                   ELSE None
     IN /\ Report(r, FALSE, status, result)
        /\ Complete(r, GetActorCheckpoint_on_done(reply[r], status, result))
  /\ UNCHANGED <<request, calls, actor_table, checkpoint_table>>

----------------------------------------------------------------------------
\* HandleGetActorCheckpointID

GetActorCheckpointIDRequests == [op : {"GetActorCheckpointID"}, actor_id : ActorIDs]

\* rpc::ActorCheckpointIdData of an actor: the ids of its stored checkpoints,
\* or nothing when it has none.
CheckpointIdData(actor_id) ==
  LET ids == {c \in CheckpointIDs : checkpoint_table[<<actor_id, c>>] # None}
  IN IF ids = {} THEN None
     ELSE Some([actor_id |-> actor_id, checkpoint_ids |-> ids])

GetActorCheckpointID_on_done(rep, status, result) ==
  LET done == IF ok(status)
              THEN LET checked == RAY_DCHECK(Effect(rep), result # None)
                   IN IF checked.crashed THEN checked
                      ELSE [checked EXCEPT
                              !.reply.checkpoint_id_data = Some(CopyFrom(Deref(result)))]
              ELSE Effect(rep)
  IN GCS_RPC_SEND_REPLY(done, status)

HandleGetActorCheckpointID(r, req, status) ==
  /\ ~crashed /\ pc[r] = "idle"
  /\ Receive(r, req, <<"AsyncGetCheckpointID">>)
  /\ IF ~ok(status)
     THEN /\ Report(r, TRUE, status, None)
          /\ Complete(r, GetActorCheckpointID_on_done(reply[r], status, None))
     ELSE Defer(r)
  /\ UNCHANGED <<actor_table, checkpoint_table>>

GetActorCheckpointIDDone(r, status) ==
  /\ ~crashed /\ pc[r] = "pending" /\ request[r].op = "GetActorCheckpointID"
  /\ LET actor_id == FromBinary(request[r].actor_id)
         result == IF ok(status) THEN CheckpointIdData(actor_id) ELSE None
     IN /\ Report(r, FALSE, status, result)
        /\ Complete(r, GetActorCheckpointID_on_done(reply[r], status, result))
  /\ UNCHANGED <<request, calls, actor_table, checkpoint_table>>

----------------------------------------------------------------------------
\* Specification

Next ==
  \/ \E r \in ReqIds, status \in Statuses :
        \/ \E req \in CreateActorRequests : HandleCreateActor(r, req, status)
        \/ \E req \in GetActorInfoRequests : HandleGetActorInfo(r, req, status)
        \/ \E req \in GetAllActorInfoRequests : HandleGetAllActorInfo(r, req, status)
        \/ \E req \in GetNamedActorInfoRequests : HandleGetNamedActorInfo(r, req, status)
        \/ \E req \in AddActorCheckpointRequests : HandleAddActorCheckpoint(r, req, status)
        \/ \E req \in GetActorCheckpointRequests : HandleGetActorCheckpoint(r, req, status)
        \/ \E req \in GetActorCheckpointIDRequests :
              HandleGetActorCheckpointID(r, req, status)
        \/ \E req \in RegisterActorInfoRequests, pub_status \in Statuses :
              HandleRegisterActorInfo(r, req, status, pub_status)
        \/ \E req \in UpdateActorInfoRequests, pub_status \in Statuses :
              HandleUpdateActorInfo(r, req, status, pub_status)
  \/ \E r \in ReqIds : CreateActorRegistered(r)
  \/ \E r \in ReqIds, status \in Statuses :
        \/ GetActorInfoDone(r, status)
        \/ GetNamedActorInfoDone(r, status)
        \/ AddActorCheckpointDone(r, status)
        \/ GetActorCheckpointDone(r, status)
        \/ GetActorCheckpointIDDone(r, status)
        \/ \E result \in Orders(StoredRecords) \cup {<<>>} :
              GetAllActorInfoDone(r, status, result)
        \/ \E pub_status \in Statuses :
              \/ RegisterActorInfoDone(r, status, pub_status)
              \/ UpdateActorInfoDone(r, status, pub_status)

Spec == Init /\ [][Next]_vars

\* The registry is durable and outlives the handler: the service may start
\* in front of an actor table that already holds a record for every ActorID.
InitStored ==
  /\ pc = [r \in ReqIds |-> "idle"]
  /\ request = [r \in ReqIds |-> NoRequest]
  /\ reply = [r \in ReqIds |-> EmptyReply]
  /\ sent = [r \in ReqIds |-> <<>>]
  /\ calls = [r \in ReqIds |-> <<>>]
  /\ outcome = [r \in ReqIds |-> <<>>]
  /\ published = <<>>
  /\ crashed = FALSE
  /\ actor_table = [id \in ActorIDs |->
                      Some([actor_id |-> id, state |-> "ALIVE"])]
  /\ checkpoint_table = [k \in ActorIDs \X CheckpointIDs |-> None]

StoredSpec == InitStored /\ [][Next]_vars

\* A delegate that accepted a call eventually invokes the callback it was
\* given.
Callbacks ==
  \/ \E r \in ReqIds : CreateActorRegistered(r)
  \/ \E r \in ReqIds, status \in Statuses :
        \/ GetActorInfoDone(r, status)
        \/ GetNamedActorInfoDone(r, status)
        \/ AddActorCheckpointDone(r, status)
        \/ GetActorCheckpointDone(r, status)
        \/ GetActorCheckpointIDDone(r, status)
        \/ \E result \in Orders(StoredRecords) \cup {<<>>} :
              GetAllActorInfoDone(r, status, result)
        \/ \E pub_status \in Statuses :
              \/ RegisterActorInfoDone(r, status, pub_status)
              \/ UpdateActorInfoDone(r, status, pub_status)

FairSpec == Spec /\ WF_vars(Callbacks)

----------------------------------------------------------------------------
\* Vocabulary of the properties

RegistryOps == {"GetActorInfo", "GetAllActorInfo", "GetNamedActorInfo",
                "RegisterActorInfo", "UpdateActorInfo", "AddActorCheckpoint",
                "GetActorCheckpoint", "GetActorCheckpointID"}

MutationOps == {"RegisterActorInfo", "UpdateActorInfo"}

CheckpointGetOps == {"GetActorCheckpoint", "GetActorCheckpointID"}

\* The delegate has reported its outcome for request r (by returning a failed
\* Status, or through the callback).
Reported(r) == Len(outcome[r]) = 1

\* The Publish calls made for request r.
PublishedBy(r) == SelectSeq(published, LAMBDA n : n.by = r)

\* The ActorID a RegisterActorInfo / UpdateActorInfo request names.
RequestActorID(req) ==
  IF req.op = "RegisterActorInfo" THEN req.actor_table_data.actor_id
  ELSE req.actor_id

----------------------------------------------------------------------------
\* C1: for every request to any of the nine handlers, send_reply_callback is
\* invoked at most once, in every interleaving of handlers and callbacks.
C1_ReplyAtMostOnce == \A r \in ReqIds : Len(sent[r]) <= 1

\* Two requests are complete, one through a deferred callback and one inline
\* on a synchronous failure, and each has been replied to once.
C1_Witness ==
  \E r, q \in ReqIds :
    /\ r # q /\ pc[r] = "done" /\ pc[q] = "done"
    /\ Reported(r) /\ ~outcome[r][1].sync /\ Len(sent[r]) = 1
    /\ Reported(q) /\ outcome[q][1].sync /\ Len(sent[q]) = 1

\* C2 (as claimed): every request is eventually replied to, provided accepted
\* delegate calls eventually call back.  Stated here for RegisterActorInfo and
\* UpdateActorInfo requests, and excusing a request when the process was
\* aborted by the handling of another request.
C2_MutationEventuallyReplied ==
  \A r \in ReqIds :
    (request[r].op \in MutationOps)
      ~> (Len(sent[r]) = 1 \/ (crashed /\ pc[r] # "aborted"))

\* C3 (as claimed): whenever the registry reports a non-Ok Status for a
\* request, synchronously or through the callback, the Status passed to
\* send_reply_callback is that same Status.
C3_RegistryFailureSurfaced ==
  \A r \in ReqIds :
    (request[r].op \in RegistryOps /\ Reported(r) /\ ~ok(outcome[r][1].status))
      => (Len(sent[r]) = 1 /\ sent[r][1].status = outcome[r][1].status)

\* C4: a GetActorInfo for an ActorID that is not in the registry when the
\* lookup finishes replies with Status Ok and leaves the reply's
\* actor_table_data unset.
C4_AbsentActorRepliesOkEmpty ==
  [][\A r \in ReqIds :
       (/\ request'[r].op = "GetActorInfo"
        /\ pc[r] # "done" /\ pc'[r] = "done"
        /\ actor_table[request'[r].actor_id] = None)
         => (/\ Len(sent'[r]) = 1 /\ sent'[r][1].status = OK
             /\ reply'[r].actor_table_data = None)]_vars

\* A GetActorInfo lookup came back Ok without a record and was answered.
C4_Witness ==
  \E r \in ReqIds :
    /\ request[r].op = "GetActorInfo" /\ pc[r] = "done"
    /\ Reported(r) /\ ~outcome[r][1].sync
    /\ ok(outcome[r][1].status) /\ outcome[r][1].result = None
    /\ Len(sent[r]) = 1

\* C5: for a name the name index resolves to the nil ActorID,
\* GetNamedActorInfo replies NotFound with a message containing the name,
\* leaves the record unset, completes before the handler returns, and makes
\* no registry call.
C5_UnknownNameNotFound ==
  \A r \in ReqIds :
    (request[r].op = "GetNamedActorInfo" /\ IsNil(GetActorIDByName(request[r].name)))
      => (/\ pc[r] = "done"
          /\ Len(sent[r]) = 1
          /\ sent[r][1].status.code = "NotFound"
          /\ \E i \in 1..Len(sent[r][1].status.msg) :
                sent[r][1].status.msg[i] = request[r].name
          /\ reply[r].actor_table_data = None
          /\ calls[r] = <<"GetActorIDByName">>
          /\ outcome[r] = <<>>)

C5_Witness ==
  \E r \in ReqIds :
    /\ request[r].op = "GetNamedActorInfo"
    /\ IsNil(GetActorIDByName(request[r].name))
    /\ Len(sent[r]) = 1

\* The registry operation of the RegisterActorInfo / UpdateActorInfo request r
\* completed with Status Ok.
MutationSucceeded(r) ==
  /\ request[r].op \in MutationOps
  /\ Reported(r) /\ ok(outcome[r][1].status)

\* The registry operation of the RegisterActorInfo / UpdateActorInfo request r
\* failed, synchronously or through the callback.
MutationFailed(r) ==
  /\ request[r].op \in MutationOps
  /\ Reported(r) /\ ~ok(outcome[r][1].status)

\* C6: every RegisterActorInfo / UpdateActorInfo request whose registry
\* operation completed Ok has exactly one notification handed to the
\* publisher, on the actor channel, keyed by the hex of the request's ActorID,
\* carrying the serialized request record; requests never share one.
C6_OneNotificationPerSuccess ==
  /\ \A r \in ReqIds :
       MutationSucceeded(r) =>
         /\ Len(PublishedBy(r)) = 1
         /\ PublishedBy(r)[1].channel = ACTOR_CHANNEL
         /\ PublishedBy(r)[1].key = Hex(RequestActorID(request[r]))
         /\ PublishedBy(r)[1].payload = SerializeAsString(request[r].actor_table_data)
  /\ Len(published) = Cardinality({r \in ReqIds : MutationSucceeded(r)})

\* Two identical UpdateActorInfo requests, whose record embeds another
\* ActorID than the one they name, both succeeded: two notifications.
C6_Witness ==
  \E r, q \in ReqIds :
    /\ r # q /\ request[r] = request[q]
    /\ request[r].op = "UpdateActorInfo"
    /\ request[r].actor_id # request[r].actor_table_data.actor_id
    /\ MutationSucceeded(r) /\ MutationSucceeded(q)
    /\ Len(published) = 2
    /\ published[1].key = <<"1", "a">>

\* C7: an Ok reply to a RegisterActorInfo / UpdateActorInfo request is sent
\* only after the request's notification was handed to the publisher.
C7_PublishBeforeReply ==
  \A r \in ReqIds :
    (/\ request[r].op \in MutationOps
     /\ Len(sent[r]) >= 1 /\ ok(sent[r][1].status))
      => (sent[r][1].published = 1 /\ Len(PublishedBy(r)) = 1)

C7_Witness ==
  \E r \in ReqIds :
    /\ request[r].op = "RegisterActorInfo"
    /\ Len(sent[r]) = 1 /\ ok(sent[r][1].status)
    /\ Len(PublishedBy(r)) = 1

\* C8: a RegisterActorInfo / UpdateActorInfo request whose registry operation
\* failed, synchronously or through the callback, publishes nothing and is
\* answered with exactly the registry's Status.
C8_FailedMutationNotPublished ==
  \A r \in ReqIds :
    MutationFailed(r) =>
      /\ PublishedBy(r) = <<>>
      /\ Len(sent[r]) = 1
      /\ sent[r][1].status = outcome[r][1].status

\* One mutation failed synchronously and another through the callback.
C8_Witness ==
  \E r, q \in ReqIds :
    /\ MutationFailed(r) /\ outcome[r][1].sync
    /\ MutationFailed(q) /\ ~outcome[q][1].sync
    /\ request[r].op # request[q].op

\* C9 (as claimed): when the registry mutation succeeded and Publish returned
\* a failed Status, the reply is still sent and reports success.
C9_PublishFailureStillRepliesOk ==
  \A r \in ReqIds :
    (/\ MutationSucceeded(r)
     /\ Len(PublishedBy(r)) = 1 /\ ~ok(PublishedBy(r)[1].status))
      => (Len(sent[r]) = 1 /\ ok(sent[r][1].status))

\* The reply field a checkpoint lookup fills in.
CheckpointPayload(r) ==
  IF request[r].op = "GetActorCheckpoint" THEN reply[r].checkpoint_data
  ELSE reply[r].checkpoint_id_data

\* C10: GetActorCheckpoint and GetActorCheckpointID never send an Ok reply
\* without the payload: an Ok reply carries the registry's result, a failed
\* lookup is answered with a failure Status, and an Ok completion with an
\* empty result aborts on the assertion and sends no reply.
C10_CheckpointOkHasPayload ==
  \A r \in ReqIds :
    (request[r].op \in CheckpointGetOps) =>
      /\ (Len(sent[r]) >= 1 /\ ok(sent[r][1].status))
           => (/\ CheckpointPayload(r) # None
               /\ Reported(r) /\ CheckpointPayload(r) = outcome[r][1].result)
      /\ (Reported(r) /\ ~ok(outcome[r][1].status))
           => (Len(sent[r]) = 1 /\ ~ok(sent[r][1].status)
               /\ CheckpointPayload(r) = None)
      /\ (Reported(r) /\ ok(outcome[r][1].status) /\ outcome[r][1].result = None)
           => (sent[r] = <<>> /\ pc[r] = "aborted" /\ crashed)

\* A checkpoint lookup, issued after the checkpoint was added, was answered
\* Ok with the stored payload.
C10_Witness ==
  \E r \in ReqIds :
    /\ request[r].op \in CheckpointGetOps
    /\ Len(sent[r]) = 1 /\ ok(sent[r][1].status)
    /\ CheckpointPayload(r) # None
    /\ CheckpointPayload(r) = outcome[r][1].result

\* The RegisterActorInfo request r has been answered Ok and no other
\* RegisterActorInfo / UpdateActorInfo request naming the same ActorID has
\* succeeded at the registry.
RegisteredUndisturbed(r) ==
  /\ request[r].op = "RegisterActorInfo"
  /\ Len(sent[r]) = 1 /\ ok(sent[r][1].status)
  /\ \A m \in ReqIds \ {r} :
       MutationSucceeded(m) =>
         RequestActorID(request[m]) # RequestActorID(request[r])

\* The step completes the GetActorInfo request q, which asks for the ActorID
\* of the record of request r.
CompletesLookupOf(q, r) ==
  /\ request'[q].op = "GetActorInfo"
  /\ request'[q].actor_id = request[r].actor_table_data.actor_id
  /\ pc[q] # "done" /\ pc'[q] = "done"

UpdateAnsweredOk(r) ==
  /\ request[r].op = "UpdateActorInfo"
  /\ Len(sent[r]) = 1 /\ ok(sent[r][1].status)

\* C12: when an UpdateActorInfo request succeeds after an identical one (same
\* ActorID, same payload) already succeeded, the second leaves the stored
\* state as the first left it, and the two requests have produced exactly two
\* notifications, with equal key and payload, and exactly two replies.
C12_UpdateIdempotent ==
  [][\A r, q \in ReqIds :
       (/\ r # q /\ request[r] = request[q]
        /\ UpdateAnsweredOk(r)
        /\ \A m \in ReqIds \ {r, q} :
             MutationSucceeded(m) =>
               RequestActorID(request[m]) # request[r].actor_id
        /\ ~UpdateAnsweredOk(q) /\ UpdateAnsweredOk(q)')
         => (/\ actor_table' = actor_table
             /\ actor_table'[request[r].actor_id] = Some(request[r].actor_table_data)
             /\ Len(PublishedBy(r)') = 1 /\ Len(PublishedBy(q)') = 1
             /\ PublishedBy(r)'[1].key = PublishedBy(q)'[1].key
             /\ PublishedBy(r)'[1].payload = PublishedBy(q)'[1].payload
             /\ PublishedBy(q)'[1].payload = SerializeAsString(request[q].actor_table_data)
             /\ Len(sent'[r]) + Len(sent'[q]) = 2)]_vars

\* Two identical UpdateActorInfo requests have both been answered Ok.
C12_Witness ==
  \E r, q \in ReqIds :
    /\ r # q /\ request[r] = request[q]
    /\ UpdateAnsweredOk(r) /\ UpdateAnsweredOk(q)
    /\ Len(published) = 2
    /\ actor_table[request[r].actor_id] = Some(request[r].actor_table_data)

\* The result on_done is given when the lookup produced nothing.
EmptyResult(op) == IF op = "GetAllActorInfo" THEN <<>> ELSE None

\* The registry call of request r failed synchronously with a Status that the
\* registry call of the identical request q reported through the callback,
\* with an empty result.
SameFailureBothPaths(r, q) ==
  /\ request[r].op \in RegistryOps /\ request[r] = request[q]
  /\ Reported(r) /\ outcome[r][1].sync
  /\ Reported(q) /\ ~outcome[q][1].sync
  /\ ~ok(outcome[r][1].status)
  /\ outcome[q][1].status = outcome[r][1].status
  /\ outcome[q][1].result = EmptyResult(request[q].op)

\* C13: a request whose registry call fails synchronously is completed inline,
\* and its reply fields and reply Status equal those of the same request whose
\* registry call was accepted and later called back with the same Status and
\* an empty result.
C13_SyncAndDeferredFailureAlike ==
  /\ \A r \in ReqIds :
       (request[r].op \in RegistryOps /\ Reported(r) /\ outcome[r][1].sync)
         => (pc[r] = "done" /\ Len(sent[r]) = 1)
  /\ \A r, q \in ReqIds :
       SameFailureBothPaths(r, q)
         => (reply[r] = reply[q] /\ sent[r] = sent[q])

C13_Witness ==
  \E r, q \in ReqIds :
    /\ SameFailureBothPaths(r, q)
    /\ request[r].op = "GetActorInfo"
    /\ Len(sent[q]) = 1

\* C14: CreateActor.  A request whose task type is not actor-creation aborts
\* the process without calling the manager and without a reply.  Otherwise the
\* manager is called once; if it fails synchronously the reply is sent inline
\* with exactly that Status; if it accepts, no reply is sent until the
\* on-registered callback fires, and the reply is then Ok.
C14_CreateActorReply ==
  \A r \in ReqIds :
    (request[r].op = "CreateActor") =>
      IF request[r].type # "ACTOR_CREATION_TASK"
      THEN /\ pc[r] = "aborted" /\ crashed
           /\ calls[r] = <<>> /\ sent[r] = <<>> /\ outcome[r] = <<>>
      ELSE /\ calls[r] = <<"RegisterActor">>
           /\ pc[r] \in {"pending", "done"}
           /\ (pc[r] = "pending") => (sent[r] = <<>> /\ outcome[r] = <<>>)
           /\ (pc[r] = "done") =>
                /\ Reported(r) /\ Len(sent[r]) = 1
                /\ IF outcome[r][1].sync
                   THEN /\ ~ok(outcome[r][1].status)
                        /\ sent[r][1].status = outcome[r][1].status
                   ELSE sent[r][1].status = OK

\* One CreateActor was answered Ok by the on-registered callback and another
\* was rejected synchronously by the manager.
C14_Witness ==
  \E r, q \in ReqIds :
    /\ request[r].op = "CreateActor" /\ request[q].op = "CreateActor"
    /\ pc[r] = "done" /\ ~outcome[r][1].sync /\ sent[r][1].status = OK
    /\ pc[q] = "done" /\ outcome[q][1].sync /\ ~ok(sent[q][1].status)

\* C15: GetNamedActorInfo for a name that resolves to a non-nil ActorID is
\* answered with the Status the registry lookup reported; the reply carries
\* the record exactly when that Status is Ok and the registry returned one,
\* and no reply with a failed Status carries a record.
C15_NamedLookupReply ==
  \A r \in ReqIds :
    (request[r].op = "GetNamedActorInfo") =>
      /\ (~IsNil(GetActorIDByName(request[r].name)) /\ Reported(r))
           => (/\ Len(sent[r]) = 1
               /\ sent[r][1].status = outcome[r][1].status
               /\ reply[r].actor_table_data =
                    (IF ok(outcome[r][1].status) THEN outcome[r][1].result ELSE None))
      /\ (Len(sent[r]) >= 1 /\ ~ok(sent[r][1].status))
           => reply[r].actor_table_data = None

\* A named lookup, made after the actor was stored, returned the stored
\* record.
C15_Witness ==
  \E r \in ReqIds :
    /\ request[r].op = "GetNamedActorInfo" /\ Reported(r)
    /\ ok(outcome[r][1].status) /\ outcome[r][1].result # None
    /\ reply[r].actor_table_data = outcome[r][1].result
    /\ Len(sent[r]) = 1

\* C16: only RegisterActorInfo and UpdateActorInfo publish: every step of a
\* request to any other handler (the handler itself or its callback, whatever
\* the outcome) leaves the Publish calls made so far unchanged.
C16_OnlyMutationsPublish ==
  [][\A r \in ReqIds :
       (pc'[r] # pc[r] /\ request'[r].op \notin MutationOps)
         => published' = published]_vars

\* An AddActorCheckpoint succeeded and a CreateActor was registered, and
\* nothing has been published.
C16_Witness ==
  \E r, q \in ReqIds :
    /\ request[r].op = "AddActorCheckpoint" /\ Reported(r)
    /\ ok(outcome[r][1].status) /\ Len(sent[r]) = 1
    /\ request[q].op = "CreateActor" /\ Len(sent[q]) = 1
    /\ published = <<>>

\* C17: notifications are published in the order in which the registry
\* invokes the completion callbacks: the step in which the callback of an
\* UpdateActorInfo fires with Status Ok appends that request's notification
\* after all earlier ones, so the last notification carries the payload of
\* the update whose completion fired last; and the request's reply, if sent,
\* is sent after that publish.
C17_PublishInCompletionOrder ==
  [][\A r \in ReqIds :
       (/\ request[r].op = "UpdateActorInfo"
        /\ pc[r] = "pending" /\ pc'[r] # "pending"
        /\ ok(outcome'[r][1].status))
         => (/\ Len(published') = Len(published) + 1
             /\ SubSeq(published', 1, Len(published)) = published
             /\ published'[Len(published')].by = r
             /\ published'[Len(published')].key = Hex(request[r].actor_id)
             /\ published'[Len(published')].payload =
                  SerializeAsString(request[r].actor_table_data)
             /\ Len(sent'[r]) <= 1
             /\ (Len(sent'[r]) = 1) => (sent'[r][1].published = 1))]_vars

\* Two updates of the same ActorID with different payloads were in flight
\* together, and the one received second completed and published first.
C17_Witness ==
  /\ request[1].op = "UpdateActorInfo" /\ request[2].op = "UpdateActorInfo"
  /\ request[1].actor_id = request[2].actor_id
  /\ request[1].actor_table_data # request[2].actor_table_data
  /\ Len(published) = 2
  /\ published[1].by = 2 /\ published[2].by = 1
  /\ published[2].payload = SerializeAsString(request[1].actor_table_data)
  /\ Len(sent[1]) = 1 /\ Len(sent[2]) = 1

\* Two completed requests with the same request message and the same
\* delegate outcome have the same reply fields and the same reply Status.
ReplyDetermined ==
  \A r, q \in ReqIds :
    (/\ pc[r] = "done" /\ pc[q] = "done"
     /\ request[r] = request[q] /\ outcome[r] = outcome[q])
      => (reply[r] = reply[q] /\ sent[r] = sent[q])

\* C18: with several requests in flight, a step of one request (its handler
\* or its completion callback) leaves the request message, the reply fields
\* and the sent replies of every other request unchanged, and a request's
\* reply is determined by its own request message and delegate outcome.
C18_RequestsIsolated ==
  [][/\ \A r, q \in ReqIds :
          (r # q /\ pc'[r] # pc[r])
            => (/\ reply'[q] = reply[q] /\ sent'[q] = sent[q]
                /\ request'[q] = request[q] /\ outcome'[q] = outcome[q])
     /\ ReplyDetermined']_vars

\* Two requests were pending together and both completed through their
\* callbacks, the one received second first, with different replies.
C18_Witness ==
  /\ request[1].op = "GetActorInfo" /\ request[2].op = "UpdateActorInfo"
  /\ request[1].actor_id = request[2].actor_id
  /\ pc[1] = "done" /\ pc[2] = "done"
  /\ ~outcome[1][1].sync /\ ~outcome[2][1].sync
  /\ reply[1].actor_table_data = Some(request[2].actor_table_data)
  /\ reply[2] = EmptyReply

\* C19: when a GetAllActorInfo completes, the reply's record list equals the
\* sequence the registry returned (same length, same order); on a synchronous
\* failure the list is empty; exactly one reply is sent either way.
C19_GetAllListsRegistryResult ==
  \A r \in ReqIds :
    (request[r].op = "GetAllActorInfo" /\ Reported(r)) =>
      /\ Len(reply[r].actor_table_data_list) = Len(outcome[r][1].result)
      /\ \A i \in 1..Len(outcome[r][1].result) :
           reply[r].actor_table_data_list[i] = outcome[r][1].result[i]
      /\ outcome[r][1].sync => reply[r].actor_table_data_list = <<>>
      /\ Len(sent[r]) = 1

\* One GetAllActorInfo returned two records in the order the store gave them
\* and another failed synchronously.
C19_Witness ==
  \E r, q \in ReqIds :
    /\ request[r].op = "GetAllActorInfo" /\ Reported(r) /\ ~outcome[r][1].sync
    /\ Len(reply[r].actor_table_data_list) = 2
    /\ reply[r].actor_table_data_list[1].actor_id = <<178>>
    /\ reply[r].actor_table_data_list[2].actor_id = <<26>>
    /\ request[q].op = "GetAllActorInfo" /\ Reported(q) /\ outcome[q][1].sync
    /\ Len(sent[r]) = 1 /\ Len(sent[q]) = 1

\* The ActorID embedded in a serialized ActorTableData: the bytes of field 1.
EmbeddedActorID(payload) == SubSeq(payload, 3, 2 + payload[2])

\* C20 (as claimed): in every notification handed to the publisher, the
\* routing key is the hex encoding of the ActorID embedded in the published
\* record.
C20_KeyMatchesPublishedRecord ==
  \A i \in 1..Len(published) :
    published[i].key = Hex(EmbeddedActorID(published[i].payload))

====
